---- MODULE Spec2Model ----
(***************************************************************************)
(* State-machine model of the "plant a tree" form (PlantPageContent) and   *)
(* of the landing-page session gate (HomeContent).                         *)
(*                                                                         *)
(* React is modelled in two phases.  A handler runs against the values of  *)
(* the last committed render and queues state updates (dirty = TRUE); the  *)
(* step Commit is the re-render: it runs the effect cleanups and effects   *)
(* whose dependencies changed.  While a render is pending no other event   *)
(* is delivered.  The continuation of the asynchronous handleSubmit keeps  *)
(* the previewUrl of the render in which the form was submitted.           *)
(***************************************************************************)
EXTENDS Integers, Sequences, FiniteSets, TLC

VARIABLES
    user,             \* useAuth().user: Null or a user id
    authLoading,      \* useAuth().loading
    page,             \* which page component is mounted: "none", "plant", "home"
    dirty,            \* a re-render of the mounted page is pending
    rendered,         \* values the last committed render closed over
    image,            \* useState<File | null>
    previewUrl,       \* useState<string | null>: a preview handle or NoPreview
    treeQuantity,     \* useState<number>
    treeName,         \* useState(''): a sequence of characters
    selectedDistrict, \* useState<DistrictSearchResult | null>
    error,            \* error banner
    success,          \* success banner
    submitting,       \* useState(false)
    live,             \* preview handles created and not yet revoked
    nextHandle,       \* the next handle createImagePreview will return
    inflight,         \* POST /api/plant requests awaiting their response
    timers,           \* pending setTimeout callbacks (delayed navigation)
    navs              \* router.push calls made by the last step

vars == <<user, authLoading, page, dirty, rendered, image, previewUrl,
          treeQuantity, treeName, selectedDistrict, error, success,
          submitting, live, nextHandle, inflight, timers, navs>>

draft == <<image, previewUrl, treeQuantity, treeName, selectedDistrict>>
banners == <<error, success>>

----------------------------------------------------------------------------
(* Bounds of the model *)

\* preview handles createImagePreview may hand out in one behaviour
MaxHandles == 2
\* requests in flight plus delayed navigations pending at one time
MaxPending == 2

----------------------------------------------------------------------------
(* Values *)

Null == "<null>"
NoPreview == 0
Users == {"u1", "u2"}
Districts == {"d1"}

\* Files the picker or a drop can deliver: name -> MIME type and size (MB)
Files == {"a.png", "b.webp", "big.png", "doc.pdf"}
FileType(f) == CASE f = "a.png" -> "image/png"
                 [] f = "b.webp" -> "image/webp"
                 [] f = "big.png" -> "image/png"
                 [] f = "doc.pdf" -> "application/pdf"
FileSize(f) == CASE f = "big.png" -> 11 [] OTHER -> 1
AllowedTypes == {"image/jpeg", "image/png", "image/webp"}
MaxImageSizeMB == 10

\* Texts typed into the quantity and the tree-name inputs
QuantityInputs == { <<"0">>, <<"-", "5">>, <<"a", "b", "c">>, <<>>,
                    <<"2">>, <<" ", "2", ".", "7">> }
NameInputs == { <<>>, <<" ">>, <<" ", "N", " ">> }

PlantRedirectPath == "/?auth_required=true"
HomeRedirectPath == "/dashboard"
ContributionPath == "/contribution"

MsgNoDistrict == "Please select a district"
MsgNoPhoto == "Please upload a tree photo"
MsgNoName == "Please enter the tree name"
MsgBadQuantity == "Please enter a valid number of trees"
MsgGeneric == "Failed to submit contribution"
MsgInvalidImage == "Invalid image file"
MsgSuccess == "Tree contribution submitted successfully!"

\* Messages of errors the runtime throws (their text is the engine's)
JsonSyntaxMessage == "Unexpected end of JSON input"
NullDerefMessage == "Cannot read properties of null (reading 'error')"
NetworkErrorMessage == "Failed to fetch"

\* Response bodies: an object with or without an 'error' field, the JSON
\* value null, or text that is not JSON (the empty body included)
NoField == "<undefined>"
Bodies == [kind : {"object"}, error : {NoField, "", "district required"}]
            \cup [kind : {"null", "invalid"}, error : {NoField}]
Responses == [status : {"ok", "notok"}, body : Bodies]
               \cup [status : {"rejected"}, body : {[kind |-> "invalid", error |-> NoField]}]

----------------------------------------------------------------------------
(* Pure helpers *)

IsSpace(c) == c = " "

RECURSIVE SkipSpaces(_)
SkipSpaces(s) ==
    IF s # <<>> /\ IsSpace(Head(s)) THEN SkipSpaces(Tail(s)) ELSE s

RECURSIVE TrimEnd(_)
TrimEnd(s) ==
    IF s # <<>> /\ IsSpace(s[Len(s)])
    THEN TrimEnd(SubSeq(s, 1, Len(s) - 1))
    ELSE s

\* String.prototype.trim
Trim(s) == TrimEnd(SkipSpaces(s))

DigitChars == {"0", "1", "2", "3", "4", "5", "6", "7", "8", "9"}
DigitVal(c) == CASE c = "0" -> 0 [] c = "1" -> 1 [] c = "2" -> 2
                 [] c = "3" -> 3 [] c = "4" -> 4 [] c = "5" -> 5
                 [] c = "6" -> 6 [] c = "7" -> 7 [] c = "8" -> 8
                 [] c = "9" -> 9

RECURSIVE ParseDigits(_, _, _)
ParseDigits(s, acc, seen) ==
    IF s # <<>> /\ Head(s) \in DigitChars
    THEN ParseDigits(Tail(s), acc * 10 + DigitVal(Head(s)), TRUE)
    ELSE [isNaN |-> ~seen, val |-> acc]

\* parseInt(text): leading whitespace, an optional sign, then the longest
\* run of decimal digits; NaN when there is none
ParseInt(text) ==
    LET s == SkipSpaces(text)
        signed == s # <<>> /\ Head(s) \in {"-", "+"}
        p == ParseDigits(IF signed THEN Tail(s) ELSE s, 0, FALSE)
    IN  [isNaN |-> p.isNaN,
         val |-> IF signed /\ Head(s) = "-" THEN 0 - p.val ELSE p.val]

\* n || 1 on a number: NaN and 0 are falsy
OrOne(p) == IF p.isNaN \/ p.val = 0 THEN 1 ELSE p.val

Max2(a, b) == IF a >= b THEN a ELSE b

\* Variant of CoerceQuantity: only "|| 1", no Math.max
CoerceQuantityNoFloor(text) == OrOne(ParseInt(text))

\* onChange of the quantity input: Math.max(1, parseInt(value) || 1)
CoerceQuantity(text) == Max2(1, OrOne(ParseInt(text)))

\* a || b on a string that may be undefined
OrElse(m, fallback) == IF m \in {NoField, ""} THEN fallback ELSE m

RemoveAt(s, i) == SubSeq(s, 1, i - 1) \o SubSeq(s, i + 1, Len(s))

----------------------------------------------------------------------------
(* Collaborators from @/lib/utils/storage *)

\* validateImageFile(file): the results it can give.  A rejected file comes
\* with a reason or without one (error is optional in the result).
ValidateImageFile(f) ==
    IF FileType(f) \notin AllowedTypes
    THEN {[valid |-> FALSE, error |-> "Invalid file type"],
          [valid |-> FALSE, error |-> NoField]}
    ELSE IF FileSize(f) > MaxImageSizeMB
    THEN {[valid |-> FALSE, error |-> "File too large"],
          [valid |-> FALSE, error |-> NoField]}
    ELSE {[valid |-> TRUE, error |-> NoField]}

\* revokeImagePreview(url): the handle is released; idempotent
RevokeImagePreview(l, url) == l \ {url}

----------------------------------------------------------------------------
(* What a render shows *)

\* PlantPageContent renders the form only for a resolved, present identity
PlantView(u, loading) ==
    IF loading THEN "loading" ELSE IF u = Null THEN "nothing" ELSE "form"

\* HomeContent renders nothing for a resolved, present identity
HomeView(u, loading) ==
    IF loading THEN "loading" ELSE IF u # Null THEN "nothing" ELSE "landing"

\* The form is on screen and no render is pending: user events reach it
FormVisible ==
    page = "plant" /\ ~dirty /\ PlantView(user, authLoading) = "form"

\* Variant of SubmitDisabled: the button is never disabled
SubmitNeverDisabled == FALSE

\* <button type="submit" disabled={submitting}>
SubmitDisabled == submitting

----------------------------------------------------------------------------
(* Effects *)

\* the auth redirect effect of PlantPageContent
PlantRedirect(u, loading) ==
    IF ~loading /\ u = Null THEN <<PlantRedirectPath>> ELSE <<>>

\* the dashboard redirect effect of HomeContent
HomeRedirect(u, loading) ==
    IF ~loading /\ u # Null THEN <<HomeRedirectPath>> ELSE <<>>

\* Variant of DepsChanged: an effect without a dependency array runs after
\* every render
DepsIgnored(old, new) == TRUE

\* an effect with a dependency array runs again only when an entry changed
DepsChanged(old, new) == old # new

\* Variant of PreviewCleanup: the effect returns no cleanup
PreviewCleanupSkipped(l, url) == l

\* cleanup of the [previewUrl] effect: if (previewUrl) revokeImagePreview
PreviewCleanup(l, url) ==
    IF url # NoPreview THEN RevokeImagePreview(l, url) ELSE l

\* Variant of ReleaseBeforeReplace: the old preview is not revoked
KeepOldPreview(l, url) == l

\* handleImageFile, before the new preview is created:
\* if (previewUrl) revokeImagePreview(previewUrl)
ReleaseBeforeReplace(l, url) ==
    IF url # NoPreview THEN RevokeImagePreview(l, url) ELSE l

\* handleSubmit on success: if (previewUrl) revokeImagePreview(previewUrl),
\* previewUrl being the one of the render the form was submitted in
ReleaseCaptured(l, url) ==
    IF url # NoPreview THEN RevokeImagePreview(l, url) ELSE l

----------------------------------------------------------------------------
(* Initial state: nothing mounted yet, the session in any state *)

InitialDraft ==
    /\ image = Null
    /\ previewUrl = NoPreview
    /\ treeQuantity = 1
    /\ treeName = <<>>
    /\ selectedDistrict = Null

Init ==
    /\ user \in Users \cup {Null}
    /\ authLoading \in BOOLEAN
    /\ page = "none"
    /\ dirty = FALSE
    /\ rendered = [previewUrl |-> NoPreview, user |-> Null, loading |-> TRUE]
    /\ InitialDraft
    /\ error = Null
    /\ success = Null
    /\ submitting = FALSE
    /\ live = {}
    /\ nextHandle = 1
    /\ inflight = <<>>
    /\ timers = 0
    /\ navs = <<>>

----------------------------------------------------------------------------
(* Mounting, unmounting, rendering *)

\* First render of PlantPageContent and its effects
MountPlant ==
    /\ page = "none"
    /\ page' = "plant"
    /\ rendered' = [previewUrl |-> NoPreview, user |-> user, loading |-> authLoading]
    /\ navs' = PlantRedirect(user, authLoading)
    /\ UNCHANGED <<user, authLoading, dirty, draft, banners, submitting, live,
                   nextHandle, inflight, timers>>

\* First render of HomeContent and its effects
MountHome ==
    /\ page = "none"
    /\ page' = "home"
    /\ rendered' = [previewUrl |-> NoPreview, user |-> user, loading |-> authLoading]
    /\ navs' = HomeRedirect(user, authLoading)
    /\ UNCHANGED <<user, authLoading, dirty, draft, banners, submitting, live,
                   nextHandle, inflight, timers>>

\* The requests of an unmounted instance keep running; their continuation
\* can no longer change any state (alive = FALSE)
Orphaned(reqs) == [i \in 1..Len(reqs) |-> [reqs[i] EXCEPT !.alive = FALSE]]

\* PlantPageContent is unmounted: effect cleanups run, its state is gone
UnmountPlant ==
    /\ page = "plant"
    /\ ~dirty
    /\ page' = "none"
    /\ live' = PreviewCleanup(live, rendered.previewUrl)
    /\ inflight' = Orphaned(inflight)
    /\ image' = Null
    /\ previewUrl' = NoPreview
    /\ treeQuantity' = 1
    /\ treeName' = <<>>
    /\ selectedDistrict' = Null
    /\ error' = Null
    /\ success' = Null
    /\ submitting' = FALSE
    /\ rendered' = [previewUrl |-> NoPreview, user |-> Null, loading |-> TRUE]
    /\ navs' = <<>>
    /\ UNCHANGED <<user, authLoading, dirty, nextHandle, timers>>

\* HomeContent is unmounted
UnmountHome ==
    /\ page = "home"
    /\ ~dirty
    /\ page' = "none"
    /\ rendered' = [previewUrl |-> NoPreview, user |-> Null, loading |-> TRUE]
    /\ navs' = <<>>
    /\ UNCHANGED <<user, authLoading, dirty, draft, banners, submitting, live,
                   nextHandle, inflight, timers>>

\* The authentication collaborator changes the session
AuthChange(u, loading) ==
    /\ ~dirty
    /\ <<u, loading>> # <<user, authLoading>>
    /\ user' = u
    /\ authLoading' = loading
    /\ dirty' = (page # "none")
    /\ navs' = <<>>
    /\ UNCHANGED <<page, rendered, draft, banners, submitting, live,
                   nextHandle, inflight, timers>>

\* The stats request of HomeContent answers: setStats, a re-render
HomeStatsArrive ==
    /\ page = "home"
    /\ ~dirty
    /\ dirty' = TRUE
    /\ navs' = <<>>
    /\ UNCHANGED <<user, authLoading, page, rendered, draft, banners,
                   submitting, live, nextHandle, inflight, timers>>

\* The pending re-render commits: cleanups and effects whose deps changed
Commit ==
    /\ dirty
    /\ dirty' = FALSE
    /\ live' = IF page = "plant" /\ DepsChanged(rendered.previewUrl, previewUrl)
               THEN PreviewCleanup(live, rendered.previewUrl)
               ELSE live
    /\ navs' = IF DepsChanged(<<rendered.user, rendered.loading>>, <<user, authLoading>>)
               THEN IF page = "plant"
                    THEN PlantRedirect(user, authLoading)
                    ELSE HomeRedirect(user, authLoading)
               ELSE <<>>
    /\ rendered' = [previewUrl |-> previewUrl, user |-> user, loading |-> authLoading]
    /\ UNCHANGED <<user, authLoading, page, draft, banners, submitting,
                   nextHandle, inflight, timers>>

----------------------------------------------------------------------------
(* Handlers of the form *)

\* createImagePreview(file) hands out a handle never handed out before
CreateImagePreview(l, h) == l \cup {h}

\* Variant of HandleImageFile: the file is stored without a new preview
HandleImageFileNoPreview(file, v) ==
    IF ~v.valid
    THEN /\ error' = OrElse(v.error, MsgInvalidImage)
         /\ UNCHANGED <<image, previewUrl, live, nextHandle, success>>
    ELSE /\ nextHandle <= MaxHandles
         /\ live' = ReleaseBeforeReplace(live, previewUrl)
         /\ image' = file
         /\ previewUrl' = NoPreview
         /\ nextHandle' = nextHandle
         /\ error' = Null
         /\ success' = Null

\* Variant of HandleImageFile: the old preview is revoked before the file
\* is validated
HandleImageFileRevokeFirst(file, v) ==
    IF ~v.valid
    THEN /\ error' = OrElse(v.error, MsgInvalidImage)
         /\ live' = ReleaseBeforeReplace(live, previewUrl)
         /\ UNCHANGED <<image, previewUrl, nextHandle, success>>
    ELSE /\ nextHandle <= MaxHandles
         /\ live' = CreateImagePreview(ReleaseBeforeReplace(live, previewUrl), nextHandle)
         /\ image' = file
         /\ previewUrl' = nextHandle
         /\ nextHandle' = nextHandle + 1
         /\ error' = Null
         /\ success' = Null

\* handleImageFile(file), validation having answered v
HandleImageFile(file, v) ==
    IF ~v.valid
    THEN /\ error' = OrElse(v.error, MsgInvalidImage)
         /\ UNCHANGED <<image, previewUrl, live, nextHandle, success>>
    ELSE /\ nextHandle <= MaxHandles
         /\ live' = CreateImagePreview(ReleaseBeforeReplace(live, previewUrl), nextHandle)
         /\ image' = file
         /\ previewUrl' = nextHandle
         /\ nextHandle' = nextHandle + 1
         /\ error' = Null
         /\ success' = Null

\* What a pick or a drop can carry: no file, one file, several files
FileLists == {<<>>} \cup {<<f>> : f \in Files} \cup {<<"doc.pdf", "a.png">>}

\* handleImageChange: the picker's change event; only files[0] counts
HandleImageChange(files) ==
    /\ FormVisible
    /\ IF files = <<>>
       THEN UNCHANGED <<dirty, image, previewUrl, live, nextHandle, error, success>>
       ELSE /\ \E v \in ValidateImageFile(files[1]) : HandleImageFile(files[1], v)
            /\ dirty' = TRUE
    /\ navs' = <<>>
    /\ UNCHANGED <<user, authLoading, page, rendered, treeQuantity, treeName,
                   selectedDistrict, submitting, inflight, timers>>

\* handleDrop: a drop on the drop zone; only files[0] counts
HandleDrop(files) ==
    /\ FormVisible
    /\ IF files = <<>>
       THEN UNCHANGED <<dirty, image, previewUrl, live, nextHandle, error, success>>
       ELSE /\ \E v \in ValidateImageFile(files[1]) : HandleImageFile(files[1], v)
            /\ dirty' = TRUE
    /\ navs' = <<>>
    /\ UNCHANGED <<user, authLoading, page, rendered, treeQuantity, treeName,
                   selectedDistrict, submitting, inflight, timers>>

\* onDistrictSelect of DistrictSearch
OnDistrictSelect(d) ==
    /\ FormVisible
    /\ selectedDistrict' = d
    /\ error' = Null
    /\ dirty' = TRUE
    /\ navs' = <<>>
    /\ UNCHANGED <<user, authLoading, page, rendered, image, previewUrl,
                   treeQuantity, treeName, success, submitting, live,
                   nextHandle, inflight, timers>>

\* onChange of the quantity input
OnQuantityChange(text) ==
    /\ FormVisible
    /\ treeQuantity' = CoerceQuantity(text)
    /\ dirty' = TRUE
    /\ navs' = <<>>
    /\ UNCHANGED <<user, authLoading, page, rendered, image, previewUrl,
                   treeName, selectedDistrict, banners, submitting, live,
                   nextHandle, inflight, timers>>

\* onChange of the tree-name input
OnTreeNameChange(text) ==
    /\ FormVisible
    /\ treeName' = text
    /\ dirty' = TRUE
    /\ navs' = <<>>
    /\ UNCHANGED <<user, authLoading, page, rendered, image, previewUrl,
                   treeQuantity, selectedDistrict, banners, submitting, live,
                   nextHandle, inflight, timers>>

\* Variant of ValidationError: no check is made
ValidationSkipped(d, img, name, qty) == Null

\* Variant of ValidationError: the photo is checked before the district
ValidationErrorPhotoFirst(d, img, name, qty) ==
    IF img = Null THEN MsgNoPhoto
    ELSE IF d = Null THEN MsgNoDistrict
    ELSE IF Trim(name) = <<>> THEN MsgNoName
    ELSE IF qty < 1 THEN MsgBadQuantity
    ELSE Null

\* The checks of handleSubmit, in its order: the first failing one's
\* message, or Null when all pass
ValidationError(d, img, name, qty) ==
    IF d = Null THEN MsgNoDistrict
    ELSE IF img = Null THEN MsgNoPhoto
    ELSE IF Trim(name) = <<>> THEN MsgNoName
    ELSE IF qty < 1 THEN MsgBadQuantity
    ELSE Null

\* The multipart payload and what the continuation closes over.  The
\* optional identity fields (userId, userName, userEmail) go to the server
\* only and are left out.
NewRequest ==
    [alive |-> TRUE,
     closurePreview |-> previewUrl,
     districtId |-> selectedDistrict,
     treeName |-> Trim(treeName),
     treeQuantity |-> treeQuantity,
     image |-> image]

\* handleSubmit up to its await: validation, then the request
HandleSubmit ==
    LET v == ValidationError(selectedDistrict, image, treeName, treeQuantity)
    IN  /\ success' = Null
        /\ IF v # Null
           THEN /\ error' = v
                /\ UNCHANGED <<submitting, inflight>>
           ELSE /\ Len(inflight) + timers < MaxPending
                /\ error' = Null
                /\ submitting' = TRUE
                /\ inflight' = Append(inflight, NewRequest)
        /\ dirty' = TRUE

\* A submit event on the form; a disabled submit button delivers none
SubmitClick ==
    /\ FormVisible
    /\ IF SubmitDisabled
       THEN UNCHANGED <<dirty, banners, submitting, inflight>>
       ELSE HandleSubmit
    /\ navs' = <<>>
    /\ UNCHANGED <<user, authLoading, page, rendered, draft, live,
                   nextHandle, timers>>

\* Variant of ErrorMessageOf: the body's message is not read
AlwaysGenericMessage(body) == MsgGeneric

\* json.error || 'Failed to submit contribution'
ErrorMessageOf(body) == OrElse(body.error, MsgGeneric)

\* handleSubmit after fetch settled: does it take the success branch, and
\* otherwise the message the catch block receives (err.message || generic)
SubmitOutcome(resp) ==
    IF resp.status = "rejected"
    THEN [ok |-> FALSE, message |-> OrElse(NetworkErrorMessage, MsgGeneric)]
    ELSE IF resp.body.kind = "invalid"
    THEN [ok |-> FALSE, message |-> OrElse(JsonSyntaxMessage, MsgGeneric)]
    ELSE IF resp.status = "ok"
    THEN [ok |-> TRUE, message |-> Null]
    ELSE IF resp.body.kind = "null"
    THEN [ok |-> FALSE, message |-> OrElse(NullDerefMessage, MsgGeneric)]
    ELSE [ok |-> FALSE, message |-> OrElse(ErrorMessageOf(resp.body), MsgGeneric)]

\* The continuation of handleSubmit for request i, fetch having settled
\* with resp.  Setters of an unmounted instance change nothing.
Respond(i, resp) ==
    /\ ~dirty
    /\ i \in 1..Len(inflight)
    /\ LET req == inflight[i]
           out == SubmitOutcome(resp)
       IN  /\ inflight' = RemoveAt(inflight, i)
           /\ IF out.ok
              THEN /\ live' = ReleaseCaptured(live, req.closurePreview)
                   /\ timers' = timers + 1
                   /\ IF req.alive
                      THEN /\ success' = MsgSuccess
                           /\ image' = Null
                           /\ previewUrl' = NoPreview
                           /\ treeName' = <<>>
                           /\ treeQuantity' = 1
                           /\ selectedDistrict' = Null
                           /\ UNCHANGED error
                      ELSE UNCHANGED <<draft, banners>>
              ELSE /\ error' = IF req.alive THEN out.message ELSE error
                   /\ UNCHANGED <<live, timers, draft, success>>
           /\ submitting' = IF req.alive THEN FALSE ELSE submitting
           /\ dirty' = req.alive
    /\ navs' = <<>>
    /\ UNCHANGED <<user, authLoading, page, rendered, nextHandle>>

\* The delayed navigation fires: router.push('/contribution')
TimerFire ==
    /\ ~dirty
    /\ timers > 0
    /\ timers' = timers - 1
    /\ navs' = <<ContributionPath>>
    /\ UNCHANGED <<user, authLoading, page, dirty, rendered, draft, banners,
                   submitting, live, nextHandle, inflight>>

----------------------------------------------------------------------------

Next ==
    \/ MountPlant
    \/ MountHome
    \/ UnmountPlant
    \/ UnmountHome
    \/ \E u \in Users \cup {Null}, l \in BOOLEAN : AuthChange(u, l)
    \/ HomeStatsArrive
    \/ Commit
    \/ \E files \in FileLists : HandleImageChange(files)
    \/ \E files \in FileLists : HandleDrop(files)
    \/ \E d \in Districts : OnDistrictSelect(d)
    \/ \E text \in QuantityInputs : OnQuantityChange(text)
    \/ \E text \in NameInputs : OnTreeNameChange(text)
    \/ SubmitClick
    \/ \E i \in 1..MaxPending, resp \in Responses : Respond(i, resp)
    \/ TimerFire

Spec == Init /\ [][Next]_vars

----------------------------------------------------------------------------
(* Properties *)

\* Requests of the mounted form instance that await their response
AliveInFlight == {i \in 1..Len(inflight) : inflight[i].alive}

\* C1: for one form instance at most one request to the submission
\* endpoint is in flight at any time, and while one is in flight the form is
\* submitting (its submit control disabled), so a further submit request
\* issues no second request.
C1_SingleRequestInFlight ==
    /\ Cardinality(AliveInFlight) <= 1
    /\ AliveInFlight # {} => (page = "plant" /\ submitting)

\* C1 witness: the form is on screen with its request in flight, and the
\* user has already changed the photo since submitting.
C1_Witness ==
    /\ FormVisible
    /\ submitting
    /\ Len(inflight) = 1
    /\ inflight[1].alive
    /\ inflight[1].image # image

\* C2: at every instant, pending renders included, at most one preview
\* handle has been created and not yet released.
C2_AtMostOneLiveHandle == Cardinality(live) <= 1

\* C2 witness: a second valid file was selected while the first preview was
\* live; the re-render is still pending and only the new handle is live.
C2_Witness ==
    /\ page = "plant"
    /\ dirty
    /\ rendered.previewUrl # NoPreview
    /\ previewUrl # NoPreview
    /\ previewUrl # rendered.previewUrl
    /\ live = {previewUrl}

\* C3: once the form is torn down no created preview handle remains
\* unreleased, whatever the submission state was and whether or not the
\* response of a request in flight arrives afterwards.
C3_TeardownReleasesPreview == page # "plant" => live = {}

\* C3 witness: the form was torn down after a preview had been created and
\* while its request was still in flight.
C3_Witness ==
    /\ page = "none"
    /\ nextHandle > 1
    /\ inflight # <<>>
    /\ inflight[1].closurePreview # NoPreview

\* C4: whenever the endpoint answers the form's request with a success
\* (2xx) status, whatever the body, the success banner is set, every draft
\* field is reset, the preview handle of the submission is released and one
\* delayed navigation is scheduled.
C4_SuccessStatusSucceeds ==
    [][\A i \in 1..Len(inflight), b \in Bodies :
         (inflight[i].alive /\ Respond(i, [status |-> "ok", body |-> b]))
         => /\ success' = MsgSuccess
            /\ image' = Null
            /\ previewUrl' = NoPreview
            /\ treeName' = <<>>
            /\ treeQuantity' = 1
            /\ selectedDistrict' = Null
            /\ inflight[i].closurePreview \notin live'
            /\ timers' = timers + 1]_vars

\* Messages a response body can carry in its 'error' field
ErrorMessages == {b.error : b \in Bodies} \ {NoField, ""}

FirstFailingCheck ==
    CASE selectedDistrict = Null -> MsgNoDistrict
      [] selectedDistrict # Null /\ image = Null -> MsgNoPhoto
      [] selectedDistrict # Null /\ image # Null /\ Trim(treeName) = <<>>
           -> MsgNoName
      [] selectedDistrict # Null /\ image # Null /\ Trim(treeName) # <<>>
           /\ treeQuantity < 1 -> MsgBadQuantity
      [] OTHER -> Null

\* C6: a submit attempt checks district, attachment, tree name (trimmed),
\* quantity in that order; the first failing check sets its own message,
\* issues no request and never sets submitting.
C6_ValidationShortCircuits ==
    [][(~SubmitDisabled /\ SubmitClick /\ FirstFailingCheck # Null)
         => /\ error' = FirstFailingCheck
            /\ inflight' = inflight
            /\ submitting' = FALSE
            /\ draft' = draft]_vars

\* C6 witness: every field but the photo is present and the attempt has
\* ended with the missing-photo message and no request.
C6_Witness ==
    /\ page = "plant"
    /\ dirty
    /\ selectedDistrict # Null
    /\ Trim(treeName) # <<>>
    /\ image = Null
    /\ error = MsgNoPhoto
    /\ ~submitting
    /\ inflight = <<>>

\* C7: the stored quantity is an integer >= 1 in every reachable state,
\* every request carries a quantity >= 1, and the submit-time quantity
\* check never fails.
C7_QuantityAtLeastOne ==
    /\ treeQuantity \in Nat
    /\ treeQuantity >= 1
    /\ \A i \in 1..Len(inflight) : inflight[i].treeQuantity >= 1
    /\ error # MsgBadQuantity

\* C7 witness: a request carrying 2 is in flight and the stored quantity is
\* back to 1: no input text reads as 1, so an input of 0, a negative or a
\* non-numeric text has been coerced.
C7_Witness ==
    /\ page = "plant"
    /\ submitting
    /\ Len(inflight) = 1
    /\ inflight[1].alive
    /\ inflight[1].treeQuantity = 2
    /\ treeQuantity = 1

GatePaths == {PlantRedirectPath, HomeRedirectPath}
IsGatePath(p) == p \in GatePaths

\* C8: a step pushes a gate navigation exactly when a render commits in
\* which the page sees (identity, isResolving) for the first time or
\* changed, and the pair is redirecting for that page: resolved and absent
\* on the plant page, resolved and present on the landing page, which then
\* renders nothing.  No other step pushes one.
C8_GateFiresOncePerTransition ==
    [][LET observed ==
               /\ page' # "none"
               /\ ~dirty'
               /\ \/ page' # page
                  \/ <<rendered'.user, rendered'.loading>>
                       # <<rendered.user, rendered.loading>>
           expected ==
               IF observed /\ page' = "plant" /\ ~authLoading' /\ user' = Null
               THEN <<PlantRedirectPath>>
               ELSE IF observed /\ page' = "home" /\ ~authLoading' /\ user' # Null
               THEN <<HomeRedirectPath>>
               ELSE <<>>
       IN  /\ SelectSeq(navs', IsGatePath) = expected
           /\ (page' = "home" /\ ~authLoading' /\ user' # Null)
                => HomeView(user', authLoading') = "nothing"]_vars

\* C8 witness: the identity went away while the plant form had a request
\* in flight, and the commit pushed the redirect.
C8_Witness ==
    /\ page = "plant"
    /\ ~dirty
    /\ navs = <<PlantRedirectPath>>
    /\ inflight # <<>>

\* C9: tearing the form down cancels the delayed navigation a successful
\* submission scheduled: none is pending after teardown.
C9_TeardownCancelsNavigation ==
    [][(page = "plant" /\ page' # "plant") => timers' = 0]_vars

\* C10: on any non-2xx response the banner is the body's 'error' message
\* when it carries one and the generic message otherwise (no 'error'
\* field, empty body, body that is not JSON), the draft is preserved and
\* submitting is false again.
C10_FailureBannerFromBody ==
    [][\A i \in 1..Len(inflight), b \in Bodies :
         (inflight[i].alive /\ Respond(i, [status |-> "notok", body |-> b]))
         => /\ error' = (IF b.error \in ErrorMessages THEN b.error ELSE MsgGeneric)
            /\ draft' = draft
            /\ submitting' = FALSE]_vars

\* C11: in every state the preview is present exactly when an attachment
\* is, and the two only change together: either both are cleared, or a
\* file is stored together with a preview created for it in that step, so
\* the held preview is never the one of a superseded attachment.
C11_PreviewFollowsAttachment ==
    /\ (previewUrl # NoPreview) <=> (image # Null)
    /\ [][/\ (previewUrl' # NoPreview) <=> (image' # Null)
          /\ (image' # image \/ previewUrl' # previewUrl)
               => \/ image' = Null /\ previewUrl' = NoPreview
                  \/ /\ image' \in Files
                     /\ previewUrl' = nextHandle
                     /\ nextHandle' = nextHandle + 1
                     /\ previewUrl' \in live'
                     /\ previewUrl \notin live']_vars

\* C11 witness: a second file has replaced the first; the form holds the
\* second file with the preview created for it.
C11_Witness ==
    /\ page = "plant"
    /\ image # Null
    /\ previewUrl > 1
    /\ previewUrl \in live
    /\ rendered.previewUrl # NoPreview
    /\ rendered.previewUrl # previewUrl

\* The form as a successful submission leaves it, the delayed navigation
\* not yet fired, and on screen
ClearedAfterSuccess ==
    /\ FormVisible
    /\ success = MsgSuccess
    /\ timers > 0
    /\ InitialDraft
    /\ ~submitting

\* C12 as claimed: a second submit click after a successful submission and
\* before the delayed navigation fires changes nothing: no request, no
\* further navigation, draft, banners and submitting flag as before.
C12_SecondSubmitIsNoOp ==
    [][(ClearedAfterSuccess /\ SubmitClick)
         => /\ inflight' = inflight
            /\ timers' = timers
            /\ draft' = draft
            /\ submitting' = submitting
            /\ error' = error
            /\ success' = success]_vars

\* C12 as amended: such a click issues no request, schedules no
\* navigation and leaves the draft and the submitting flag as they are; it
\* clears the success banner and sets the missing-district message.
C12_SecondSubmitIssuesNothing ==
    [][(ClearedAfterSuccess /\ SubmitClick)
         => /\ inflight' = inflight
            /\ timers' = timers
            /\ draft' = draft
            /\ submitting' = FALSE
            /\ error' = MsgNoDistrict
            /\ success' = Null]_vars

\* C12 witness: the cleared form has been submitted again while the
\* navigation is pending: no request, the district message is shown.
C12_Witness ==
    /\ page = "plant"
    /\ dirty
    /\ InitialDraft
    /\ timers > 0
    /\ inflight = <<>>
    /\ ~submitting
    /\ error = MsgNoDistrict
    /\ success = Null
    /\ nextHandle > 1

\* A pick or drop that yields no accepted file: it carries no file, or
\* validation rejects its first file
NoAcceptedFile(files) ==
    \/ files = <<>>
    \/ \A v \in ValidateImageFile(files[1]) : ~v.valid

RejectedFileLists == {fl \in FileLists : NoAcceptedFile(fl)}

\* What a rejected file can be reported with: the reason validation gave,
\* or the fallback message when it gave none
RejectionReports(f) ==
    {OrElse(v.error, MsgInvalidImage) : v \in ValidateImageFile(f)}

C14_BannersExclusive == ~(error # Null /\ success # Null)

\* C15: at every committed render of the form, the preview held in state
\* is the one the render shows and has not been released, whatever
\* re-selections, stale success branches and effect cleanups have run.
C15_HeldPreviewIsLive ==
    (page = "plant" /\ ~dirty /\ previewUrl # NoPreview)
        => (previewUrl \in live /\ rendered.previewUrl = previewUrl)

\* C15 witness: a new file was selected while a submission was in flight
\* whose handler holds the older, released handle; the render is committed
\* and the new preview is live.
C15_Witness ==
    /\ page = "plant"
    /\ ~dirty
    /\ submitting
    /\ Len(inflight) = 1
    /\ inflight[1].alive
    /\ inflight[1].closurePreview # NoPreview
    /\ inflight[1].closurePreview # previewUrl
    /\ inflight[1].closurePreview \notin live
    /\ previewUrl \in live

====
